---- MODULE Spec2Model ----
(***************************************************************************)
(* Context retrieval for NER (conivel/datas/context.py): the heuristic     *)
(* retrievers, the neural retriever with its prediction cache, the         *)
(* generation of a context retrieval dataset and its balancing, the ideal  *)
(* retriever; the loading of a book of the Dekker corpus                   *)
(* (conivel/datas/dekker/dekker.py); the experiment                        *)
(* (xp_neural_context_retriever.py).                                       *)
(*                                                                         *)
(* Conventions.  Sentence positions are zero-based as in the Python code;  *)
(* a document is a TLA+ sequence, so document[i] of the code is At0(doc,i).*)
(* An Optional value is a sequence of length 0 (None) or 1 (the value).    *)
(* Real-valued scores, errors and usefulnesses are fixed-point integers:   *)
(* the value v stands for v / Scale.                                       *)
(***************************************************************************)
EXTENDS Integers, Sequences, FiniteSets, TLC

VARIABLES
    retriever,   \* the heuristic retriever object: [name, sents_nb]
    document,    \* argument of the retrieve call
    sent_idx,    \* argument of the retrieve call
    outcome      \* what the retrieve call did: "none" before the call, then
                 \* "returned" with the matchs, or "raised"

VARIABLES
    neural,          \* the NeuralContextRetriever object: [sents_nb, use_cache,
                     \* ranking_method, batch_size]
    predict_cache,   \* its _predict_cache: a function from examples to scores
    ctx_classifier,  \* its classifier, as the function from the examples it
                     \* has been run on so far to its output on them
    ctx_matchs,      \* local of its retrieve: what the heuristic returned
    ctx_dataset,     \* the examples given to the last predict
    model_inputs,    \* local of predict: the examples of the dataset it runs
                     \* the classifier on
    scores,          \* the scores the last predict returned
    budget           \* number of calls the object may still receive

VARIABLES
    gen,                     \* arguments of generate_context_dataset:
                             \* [train_dataset, max_examples_nb,
                             \*  examples_usefulness_threshold, skip_correct]
    gen_pc,                  \* "idle"; at the head of the loop: "start",
                             \* "continue" (the last sentence was skipped) or
                             \* "next" (its body was run); "returned"; "raised"
    sent_i,                  \* loop index over train_dataset.sents()
    ctx_selection_examples,  \* the examples generated so far
    pred_tags,               \* locals of the last iteration: the unaided
    pred_scores,             \* prediction of the sentence,
    preds_ctx                \* and its predictions with each candidate

VARIABLES
    bal,          \* arguments of balance_context_dataset: [dataset, bins_nb]
    bal_bins,     \* its local bins, before they are truncated: a sequence
                  \* of sets of examples
    bal_outcome   \* "none" before the call, then "returned" with the
                  \* examples of the balanced dataset, or "raised"

VARIABLES
    sent_scores,  \* local of BM25ContextRetriever.retrieve: the score of each
                  \* sentence (from position 0), the target's being set to -1
    bm25_models   \* number of BM25Okapi indexes built by _get_bm25_model

VARIABLES
    item_dataset,  \* a ContextRetrievalDataset: its examples
    item_index,    \* argument of its __getitem__
    item_outcome   \* what __getitem__ did: "none" before the call, then
                   \* "returned" with the batch, or "raised" with the error

VARIABLES
    ideal,            \* the IdealNeuralContextRetriever object: [sents_nb]
    ideal_choice,     \* local sents_nb of its retrieve, after random.choice
    contexts,         \* local of its retrieve: what the preliminary
                      \* retriever returned
    ctx_preds,        \* local of its retrieve: the scores predicted for the
                      \* sentence with each of the contexts
    context_and_err   \* local of its retrieve: the pairs (context, error)

VARIABLES
    book_lines,   \* the lines of one book file
    book_pc,      \* "idle"; "read" in the loop over the lines; "parse" in
                  \* the loop over the tokens; "done" once the document is
                  \* appended to documents
    line_i,       \* loop index, over the lines and then over the tokens
    book_tokens,  \* tokens and tags read from the file
    book_tags,
    book_doc,     \* the sentences completed so far
    book_sent     \* the sentence being filled

VARIABLES
    xp,                  \* configuration of the experiment: [retrieval_heuristic,
                         \* runs_nb, k, folds_list]
    xp_pc,               \* position in main: "idle", "start", "fold" (head of
                         \* the loop over the folds), "generated", "retriever",
                         \* "done", "raised"
    run_i,               \* loop indexes of main
    fold_i,
    xp_error,            \* the error main ended with, if any
    ctx_selector_class   \* the class the last lookup of the heuristic gave

heurVars == <<retriever, document, sent_idx, outcome>>
genVars == <<gen, gen_pc, sent_i, ctx_selection_examples, pred_tags, pred_scores,
             preds_ctx>>
neuralVars == <<neural, predict_cache, ctx_classifier, ctx_matchs, ctx_dataset,
                model_inputs, scores, budget>>
balVars == <<bal, bal_bins, bal_outcome>>
bm25Vars == <<sent_scores, bm25_models>>
itemVars == <<item_dataset, item_index, item_outcome>>
idealVars == <<ideal, ideal_choice, contexts, ctx_preds, context_and_err>>
bookVars == <<book_lines, book_pc, line_i, book_tokens, book_tags, book_doc,
              book_sent>>
xpVars == <<xp, xp_pc, run_i, fold_i, xp_error, ctx_selector_class>>
vars == <<heurVars, neuralVars, genVars, balVars, bm25Vars, itemVars, idealVars,
          bookVars, xpVars>>

----------------------------------------------------------------------------
(* Bounds of the model *)

MaxDocLen == 5
MaxSentsNb == 3
MaxPredictLen == 2
MaxCalls == 3
MaxCorpusSents == 3
MaxExamplesNb == 2
MaxSweepLen == 4

----------------------------------------------------------------------------
(* Generic helpers *)

None == <<>>
Some(v) == <<v>>

Min(a, b) == IF a < b THEN a ELSE b
Max(a, b) == IF a > b THEN a ELSE b

\* document[i] with a zero-based i
At0(s, i) == s[i + 1]

\* range(a, b) of Python, as a sequence
Range(a, b) == [k \in 1..Max(0, b - a) |-> a + k - 1]

SeqToSet(s) == {s[k] : k \in DOMAIN s}

\* sorted(S) for a finite set of integers
RECURSIVE SortedSeq(_)
SortedSeq(S) ==
    IF S = {} THEN <<>>
    ELSE LET m == CHOOSE x \in S : \A y \in S : x <= y
         IN  <<m>> \o SortedSeq(S \ {m})

\* the sequences of length k over S without repetition
InjSeqs(S, k) ==
    {p \in [1..k -> S] : \A a, b \in 1..k : a # b => p[a] # p[b]}

----------------------------------------------------------------------------
(* Data model *)

NERSentence(tokens, tags) == [tokens |-> tokens, tags |-> tags]

Sentences ==
    { NERSentence(<<"Ann", "ran">>, <<"B-PER", "O">>),
      NERSentence(<<"Bob">>, <<"B-PER">>) }

Documents == UNION {[1..n -> Sentences] : n \in 1..MaxDocLen}

ContextRetrievalMatch(sentence, sentence_idx, side, score) ==
    [sentence |-> sentence, sentence_idx |-> sentence_idx,
     side |-> side, score |-> score]

\* the side a retriever gives to position i for the target sidx
SideOf(i, sidx) == IF i < sidx THEN "left" ELSE "right"

\* sents_nb of a retriever: an int, or a list of ints among which one is
\* drawn at each call
IntNb(n) == [is_list |-> FALSE, ns |-> <<n>>]
ListNb(ns) == [is_list |-> TRUE, ns |-> ns]

SentsNbConfigs ==
    {IntNb(n) : n \in 0..MaxSentsNb}
    \cup {ListNb(<<a, b>>) : a \in {0, 2}, b \in 1..MaxSentsNb}

\* random.choice(sents_nb) when sents_nb is a list, sents_nb otherwise
SentsNbChoices(cfg) == SeqToSet(cfg.ns)

\* the positions in the document of the matchs of an outcome
MatchIdxs(o) == {o.matchs[k].sentence_idx : k \in DOMAIN o.matchs}

Returned(matchs) == [status |-> "returned", matchs |-> matchs]
Raised == [status |-> "raised", matchs |-> <<>>]
NoCall == [status |-> "none", matchs |-> <<>>]


----------------------------------------------------------------------------
(* Heuristic retrievers.  Each retrieve is the set of the outcomes the call *)
(* can have: the random draws and the answers of the libraries it calls     *)
(* (POS tagger, BM25 scores, order of ties in topk) are not determined by   *)
(* the arguments.                                                           *)

MatchsAt(idxs, sidx, doc) ==
    [k \in DOMAIN idxs |->
        ContextRetrievalMatch(At0(doc, idxs[k]), idxs[k], SideOf(idxs[k], sidx), None)]

\* random.sample(population, k) followed by sorted(): the sorted k-subsets
SortedSamples(population, k) ==
    {SortedSeq(S) : S \in {T \in SUBSET population : Cardinality(T) = k}}

RandomRetrieve(nb, sidx, doc) ==
    LET others == {i \in 0..(Len(doc) - 1) : i # sidx}
        k == Min(Len(doc) - 1, nb)
    IN  {Returned(MatchsAt(idxs, sidx, doc)) : idxs \in SortedSamples(others, k)}

\* nltk.pos_tag decides which tokens of the sentence are nouns
NounTokenSets(sent) == SUBSET SeqToSet(sent.tokens)

SameNounRetrieve(nb, sidx, doc) ==
    UNION {
        LET selected == {i \in 0..(Len(doc) - 1) :
                            /\ i # sidx
                            /\ name_tokens \cap SeqToSet(At0(doc, i).tokens) # {}}
            k == Min(nb, Cardinality(selected))
        IN  {Returned(MatchsAt(idxs, sidx, doc)) : idxs \in SortedSamples(selected, k)}
        : name_tokens \in NounTokenSets(At0(doc, sidx)) }

\* [document[i] ... for i in idxs]: IndexError when an index is past the end
WindowMatchs(idxs, side, doc) ==
    IF \E k \in DOMAIN idxs : idxs[k] >= Len(doc)
    THEN Raised
    ELSE Returned([k \in DOMAIN idxs |->
            ContextRetrievalMatch(At0(doc, idxs[k]), idxs[k], side, None)])

\* (mutant) sents_nb sentences are taken on the left
NeighborsRetrieve_left_not_halved(nb, sidx, doc) ==
    LET left_sents_nb == nb
        right_sents_nb == nb \div 2
        left_ctx == WindowMatchs(Range(Max(0, sidx - left_sents_nb), sidx), "left", doc)
        right_ctx == WindowMatchs(Range(sidx + 1, sidx + 1 + right_sents_nb), "right", doc)
    IN  { IF left_ctx.status = "raised" \/ right_ctx.status = "raised"
          THEN Raised
          ELSE Returned(left_ctx.matchs \o right_ctx.matchs) }

NeighborsRetrieve(nb, sidx, doc) ==
    LET left_sents_nb == nb \div 2
        right_sents_nb == nb \div 2
        left_ctx == WindowMatchs(Range(Max(0, sidx - left_sents_nb), sidx), "left", doc)
        right_ctx == WindowMatchs(Range(sidx + 1, sidx + 1 + right_sents_nb), "right", doc)
    IN  { IF left_ctx.status = "raised" \/ right_ctx.status = "raised"
          THEN Raised
          ELSE Returned(left_ctx.matchs \o right_ctx.matchs) }

LeftRetrieve(nb, sidx, doc) ==
    { WindowMatchs(Range(Max(0, sidx - nb), sidx), "left", doc) }

RightRetrieve(nb, sidx, doc) ==
    { WindowMatchs(Range(sidx + 1, sidx + 1 + nb), "right", doc) }

\* The values BM25Okapi.get_scores can give to a sentence (rank_bm25 is not
\* part of the repository).  A score is 0 when no query token is in the
\* sentence, positive in general, and negative when the query tokens are in
\* more than half of the sentences of a small document.
BM25ScoreVals == {-2, 0, 3}

\* sent_scores[sent_idx] = -1
SelfScore == -1

\* torch.topk(values, k): the index sequences it can return (values in
\* decreasing order, ties in any order)
TopK(values, k) ==
    LET idxs == DOMAIN values
    IN  {p \in InjSeqs(idxs, k) :
            /\ \A a \in 1..(k - 1) : values[p[a]] >= values[p[a + 1]]
            /\ \A i \in idxs \ SeqToSet(p) :
                   \A a \in 1..k : values[i] <= values[p[a]]}

\* sent_scores after 'sent_scores[sent_idx] = -1': what get_scores may give
\* for the other sentences
BM25Scores(sidx, doc) ==
    {[i \in 0..(Len(doc) - 1) |->
         IF i = sidx THEN SelfScore ELSE bm25_scores[i]] :
        bm25_scores \in [0..(Len(doc) - 1) -> BM25ScoreVals]}

\* (mutant) the matchs are put in the order of their positions
BM25Outcomes_sorted(nb, sidx, doc, scores_of_sents) ==
    IF nb > Len(doc)
    THEN {Raised}
    ELSE {Returned(
              LET pos == SortedSeq(SeqToSet(topk))
              IN  [k \in 1..nb |->
                      ContextRetrievalMatch(At0(doc, pos[k]), pos[k],
                                            SideOf(pos[k], sidx),
                                            Some(scores_of_sents[pos[k]]))])
          : topk \in TopK(scores_of_sents, nb)}

\* the topk of the scores and the matchs made of it
BM25Outcomes(nb, sidx, doc, scores_of_sents) ==
    IF nb > Len(doc)
    THEN {Raised}
    ELSE {Returned([k \in 1..nb |->
             ContextRetrievalMatch(At0(doc, topk[k]), topk[k],
                                   SideOf(topk[k], sidx),
                                   Some(scores_of_sents[topk[k]]))])
          : topk \in TopK(scores_of_sents, nb)}

BM25Retrieve(nb, sidx, doc) ==
    UNION {BM25Outcomes(nb, sidx, doc, scores_of_sents) :
              scores_of_sents \in BM25Scores(sidx, doc)}

HeuristicNames == {"random", "samenoun", "neighbors", "left", "right", "bm25"}

\* retrieve(sent_idx, document) of the retriever r, sents_nb being drawn
\* when it is a list
Retrieve(r, sidx, doc) ==
    UNION {
        CASE r.name = "random" -> RandomRetrieve(nb, sidx, doc)
          [] r.name = "samenoun" -> SameNounRetrieve(nb, sidx, doc)
          [] r.name = "neighbors" -> NeighborsRetrieve(nb, sidx, doc)
          [] r.name = "left" -> LeftRetrieve(nb, sidx, doc)
          [] r.name = "right" -> RightRetrieve(nb, sidx, doc)
          [] r.name = "bm25" -> BM25Retrieve(nb, sidx, doc)
        : nb \in SentsNbChoices(r.sents_nb) }

\* __init__ of the retrievers: NeighborsContextRetriever asserts that
\* sents_nb is even
Retrievers ==
    {r \in [name : HeuristicNames, sents_nb : SentsNbConfigs] :
        r.name = "neighbors" => \A n \in SentsNbChoices(r.sents_nb) : n % 2 = 0}

----------------------------------------------------------------------------
(* Context retrieval examples and the neural retriever *)

ContextRetrievalExample(sent, context, context_side, usefulness, correct) ==
    [sent |-> sent, context |-> context, context_side |-> context_side,
     usefulness |-> usefulness, sent_was_correctly_predicted |-> correct]

\* Scores are fixed-point: v stands for v / Scale
Scale == 10

\* sigmoid(logit) * 2 - 1: the values the classifier's output takes here
ClassifierVals == {-2, 0, 4, 9}

\* the value predict writes for a cached example before overwriting: -1.0
CachedPlaceholder == -Scale

_predict_cache_get(cache, x) == IF x \in DOMAIN cache THEN Some(cache[x]) ELSE None

\* a registration that starts a new dictionary
_predict_cache_register_replacing(cache, x, score) == [e \in {x} |-> score]

_predict_cache_register_(cache, x, score) ==
    [e \in DOMAIN cache \cup {x} |-> IF e = x THEN score ELSE cache[e]]

\* the DataLoader loop: the classifier is run batch by batch and the
\* predictions are concatenated
RECURSIVE BatchedScores(_, _, _)
BatchedScores(examples, batch_size, classifier) ==
    IF examples = <<>> THEN <<>>
    ELSE LET n == Min(batch_size, Len(examples))
             X == SubSeq(examples, 1, n)
             pred == [k \in 1..n |-> classifier[X[k]]]
         IN  pred \o BatchedScores(SubSeq(examples, n + 1, Len(examples)),
                                   batch_size, classifier)

\* the positions (from 1), in increasing order, where flags is TRUE
RECURSIVE Positions(_, _)
Positions(flags, k) ==
    IF k > Len(flags) THEN <<>>
    ELSE (IF flags[k] THEN <<k>> ELSE <<>>) \o Positions(flags, k + 1)

\* for ex, score in zip(examples, out_scores): register(ex, score)
RECURSIVE RegisterAll(_, _, _, _)
RegisterAll(cache, examples, out_scores, k) ==
    IF k > Min(Len(examples), Len(out_scores)) THEN cache
    ELSE RegisterAll(_predict_cache_register_(cache, examples[k], out_scores[k]),
                     examples, out_scores, k + 1)

\* predict without the restriction of the dataset to the uncached examples
UncachedExamples_whole_dataset(examples, use_cache, cache) == examples

\* the examples predict runs the classifier on
UncachedExamples(examples, use_cache, cache) ==
    IF use_cache
    THEN LET idxs == Positions([k \in DOMAIN examples |->
                                   examples[k] \notin DOMAIN cache], 1)
         IN  [k \in DOMAIN idxs |-> examples[idxs[k]]]
    ELSE examples

\* predict(dataset): the scores returned and the cache afterwards.  The
\* registration loop zips the examples of the dataset, which is by then the
\* dataset restricted to the uncached examples, with the scores of the whole
\* input.
Predict(examples, use_cache, batch_size, cache, classifier) ==
    LET uncached_idxs == IF use_cache
                         THEN Positions([k \in DOMAIN examples |->
                                           examples[k] \notin DOMAIN cache], 1)
                         ELSE [k \in DOMAIN examples |-> k]
        dataset == UncachedExamples(examples, use_cache, cache)
        init_scores == IF use_cache
                       THEN [k \in DOMAIN examples |->
                               IF examples[k] \in DOMAIN cache
                               THEN cache[examples[k]] ELSE CachedPlaceholder]
                       ELSE [k \in DOMAIN examples |-> 0]
        model_scores == BatchedScores(dataset, batch_size, classifier)
        out_scores == [k \in DOMAIN examples |->
                         IF \E j \in DOMAIN uncached_idxs : uncached_idxs[j] = k
                         THEN model_scores[CHOOSE j \in DOMAIN uncached_idxs :
                                              uncached_idxs[j] = k]
                         ELSE init_scores[k]]
    IN  [out_scores |-> out_scores,
         cache |-> IF use_cache
                   THEN RegisterAll(cache, dataset, out_scores, 1)
                   ELSE cache]

\* the classifiers that agree with what the classifier has output so far
\* and are defined on the examples it is run on now
Classifiers(known, examples) ==
    LET new == SeqToSet(examples) \ DOMAIN known
    IN  {[e \in DOMAIN known \cup new |-> IF e \in DOMAIN known THEN known[e] ELSE f[e]]
         : f \in [new -> ClassifierVals]}

\* torch.argsort(keys): the index sequences (from 0) it can return
Argsorts(keys) ==
    LET n == Len(keys)
    IN  {p \in InjSeqs(0..(n - 1), n) :
            \A a \in 1..(n - 1) : At0(keys, p[a]) <= At0(keys, p[a + 1])}

Neg(keys) == [k \in DOMAIN keys |-> -keys[k]]

\* (mutant) the filter keeps the scores >= 0
ScoreRanking_keeps_zero(sc, sents_nb) ==
    {LET kept == Positions([k \in DOMAIN topk |-> sc[topk[k]] >= 0], 1)
     IN  [k \in DOMAIN kept |-> topk[kept[k]] - 1]
     : topk \in TopK(sc, Min(sents_nb, Len(sc)))}

\* ranking_method == "score": topk, then the indexes whose value is > 0
ScoreRanking(sc, sents_nb) ==
    {LET kept == Positions([k \in DOMAIN topk |-> sc[topk[k]] > 0], 1)
     IN  [k \in DOMAIN kept |-> topk[kept[k]] - 1]
     : topk \in TopK(sc, Min(sents_nb, Len(sc)))}

\* ranking_method == "combine_rank", after the assertion.  The mean of the
\* two ranks is kept as their sum (twice the mean): the order is the same.
CombineRanking(matchs, sc, sents_nb) ==
    LET ctx_matchs_scores == [k \in DOMAIN matchs |-> matchs[k].score[1]]
    IN  UNION { UNION {
            LET mean_ranks == [k \in DOMAIN sc |->
                                 ctx_matchs_ranks[k] + scores_ranks[k]]
            IN  {SubSeq(p, 1, Min(sents_nb, Len(p))) : p \in Argsorts(mean_ranks)}
            : scores_ranks \in Argsorts(Neg(sc)) }
            : ctx_matchs_ranks \in Argsorts(Neg(ctx_matchs_scores)) }

\* the end of retrieve without the assertion on the scores of the candidates:
\* candidates without a score are ranked by the neural score alone
RankedOutcomes_unscored_ranked(nr, matchs, sc) ==
    LET Result(best_ctx_idxs) ==
            Returned([k \in DOMAIN best_ctx_idxs |->
                ContextRetrievalMatch(
                    At0(matchs, best_ctx_idxs[k]).sentence,
                    At0(matchs, best_ctx_idxs[k]).sentence_idx,
                    At0(matchs, best_ctx_idxs[k]).side,
                    Some(At0(sc, best_ctx_idxs[k])))])
    IN  CASE nr.ranking_method = "score" ->
                {Result(idxs) : idxs \in ScoreRanking(sc, nr.sents_nb)}
          [] nr.ranking_method = "combine_rank" ->
                IF \E k \in DOMAIN matchs : matchs[k].score = None
                THEN {Result(idxs) : idxs \in ScoreRanking(sc, nr.sents_nb)}
                ELSE {Result(idxs) : idxs \in CombineRanking(matchs, sc, nr.sents_nb)}
          [] OTHER -> {Raised}

\* the end of retrieve with the score of a returned match read at its
\* position in the result, not at the index of its candidate
RankedOutcomes_score_by_position(nr, matchs, sc) ==
    LET Result(best_ctx_idxs) ==
            Returned([k \in DOMAIN best_ctx_idxs |->
                ContextRetrievalMatch(
                    At0(matchs, best_ctx_idxs[k]).sentence,
                    At0(matchs, best_ctx_idxs[k]).sentence_idx,
                    At0(matchs, best_ctx_idxs[k]).side,
                    Some(sc[k]))])
    IN  CASE nr.ranking_method = "score" ->
                {Result(idxs) : idxs \in ScoreRanking(sc, nr.sents_nb)}
          [] nr.ranking_method = "combine_rank" ->
                IF \E k \in DOMAIN matchs : matchs[k].score = None
                THEN {Raised}
                ELSE {Result(idxs) : idxs \in CombineRanking(matchs, sc, nr.sents_nb)}
          [] OTHER -> {Raised}

\* the end of retrieve: the outcomes for the candidates matchs scored sc
RankedOutcomes(nr, matchs, sc) ==
    LET Result(best_ctx_idxs) ==
            Returned([k \in DOMAIN best_ctx_idxs |->
                ContextRetrievalMatch(
                    At0(matchs, best_ctx_idxs[k]).sentence,
                    At0(matchs, best_ctx_idxs[k]).sentence_idx,
                    At0(matchs, best_ctx_idxs[k]).side,
                    Some(At0(sc, best_ctx_idxs[k])))])
    IN  CASE nr.ranking_method = "score" ->
                {Result(idxs) : idxs \in ScoreRanking(sc, nr.sents_nb)}
          [] nr.ranking_method = "combine_rank" ->
                IF \E k \in DOMAIN matchs : matchs[k].score = None
                THEN {Raised}
                ELSE {Result(idxs) : idxs \in CombineRanking(matchs, sc, nr.sents_nb)}
          [] OTHER -> {Raised}

\* ctx_dataset of retrieve
CtxDataset(sent, matchs) ==
    [k \in DOMAIN matchs |->
        ContextRetrievalExample(sent.tokens, matchs[k].sentence.tokens,
                                matchs[k].side, None, None)]

----------------------------------------------------------------------------
(* One retrieve call of a heuristic retriever on a document *)

NeuralIdle ==
    /\ neural = [sents_nb |-> 0, use_cache |-> FALSE,
                 ranking_method |-> "score", batch_size |-> 1]
    /\ predict_cache = <<>>
    /\ ctx_classifier = <<>>
    /\ ctx_matchs = <<>>
    /\ ctx_dataset = <<>>
    /\ model_inputs = <<>>
    /\ scores = <<>>
    /\ budget = 0

GenIdle ==
    /\ gen = [train_dataset |-> <<>>, max_examples_nb |-> None,
              examples_usefulness_threshold |-> 0, skip_correct |-> FALSE]
    /\ gen_pc = "idle"
    /\ sent_i = 0
    /\ ctx_selection_examples = <<>>
    /\ pred_tags = <<>>
    /\ pred_scores = <<>>
    /\ preds_ctx = <<>>

BalanceIdle ==
    /\ bal = [dataset |-> <<>>, bins_nb |-> 1]
    /\ bal_bins = <<>>
    /\ bal_outcome = [status |-> "none", examples |-> <<>>, error |-> ""]

BM25Idle ==
    /\ sent_scores = <<>>
    /\ bm25_models = 0

ItemIdle ==
    /\ item_dataset = <<>>
    /\ item_index = 0
    /\ item_outcome = [status |-> "none", batch |-> <<>>, error |-> ""]

IdealIdle ==
    /\ ideal = [sents_nb |-> IntNb(0)]
    /\ ideal_choice = 0
    /\ contexts = <<>>
    /\ ctx_preds = <<>>
    /\ context_and_err = <<>>

BookIdle ==
    /\ book_lines = <<>>
    /\ book_pc = "idle"
    /\ line_i = 0
    /\ book_tokens = <<>>
    /\ book_tags = <<>>
    /\ book_doc = <<>>
    /\ book_sent = [tokens |-> <<>>, tags |-> <<>>]

XpIdle ==
    /\ xp = [retrieval_heuristic |-> "random", runs_nb |-> 0, k |-> 0,
             folds_list |-> None]
    /\ xp_pc = "idle"
    /\ run_i = 0
    /\ fold_i = 0
    /\ xp_error = ""
    /\ ctx_selector_class = ""

HeuristicInit ==
    /\ retriever \in Retrievers
    /\ document \in Documents
    /\ sent_idx \in 0..(Len(document) - 1)
    /\ outcome = NoCall
    /\ NeuralIdle
    /\ GenIdle
    /\ BalanceIdle
    /\ BM25Idle
    /\ ItemIdle
    /\ IdealIdle
    /\ BookIdle
    /\ XpIdle

RandomContextRetriever_retrieve ==
    /\ retriever.name = "random"
    /\ outcome.status = "none"
    /\ \E nb \in SentsNbChoices(retriever.sents_nb) :
          outcome' \in RandomRetrieve(nb, sent_idx, document)
    /\ UNCHANGED <<retriever, document, sent_idx, neuralVars, genVars, balVars, bm25Vars, itemVars,
                   idealVars, bookVars, xpVars>>

SameNounRetriever_retrieve ==
    /\ retriever.name = "samenoun"
    /\ outcome.status = "none"
    /\ \E nb \in SentsNbChoices(retriever.sents_nb) :
          outcome' \in SameNounRetrieve(nb, sent_idx, document)
    /\ UNCHANGED <<retriever, document, sent_idx, neuralVars, genVars, balVars, bm25Vars, itemVars,
                   idealVars, bookVars, xpVars>>

NeighborsContextRetriever_retrieve ==
    /\ retriever.name = "neighbors"
    /\ outcome.status = "none"
    /\ \E nb \in SentsNbChoices(retriever.sents_nb) :
          outcome' \in NeighborsRetrieve(nb, sent_idx, document)
    /\ UNCHANGED <<retriever, document, sent_idx, neuralVars, genVars, balVars, bm25Vars, itemVars,
                   idealVars, bookVars, xpVars>>

LeftContextRetriever_retrieve ==
    /\ retriever.name = "left"
    /\ outcome.status = "none"
    /\ \E nb \in SentsNbChoices(retriever.sents_nb) :
          outcome' \in LeftRetrieve(nb, sent_idx, document)
    /\ UNCHANGED <<retriever, document, sent_idx, neuralVars, genVars, balVars, bm25Vars, itemVars,
                   idealVars, bookVars, xpVars>>

RightContextRetriever_retrieve ==
    /\ retriever.name = "right"
    /\ outcome.status = "none"
    /\ \E nb \in SentsNbChoices(retriever.sents_nb) :
          outcome' \in RightRetrieve(nb, sent_idx, document)
    /\ UNCHANGED <<retriever, document, sent_idx, neuralVars, genVars, balVars, bm25Vars, itemVars,
                   idealVars, bookVars, xpVars>>

BM25ContextRetriever_retrieve ==
    /\ retriever.name = "bm25"
    /\ outcome.status = "none"
    /\ bm25_models' = bm25_models + 1
    /\ \E nb \in SentsNbChoices(retriever.sents_nb) :
       \E scores_of_sents \in BM25Scores(sent_idx, document) :
          /\ sent_scores' = scores_of_sents
          /\ outcome' \in BM25Outcomes(nb, sent_idx, document, scores_of_sents)
    /\ UNCHANGED <<retriever, document, sent_idx, neuralVars, genVars, balVars,
                   itemVars,
                   idealVars, bookVars, xpVars>>

HeuristicNext ==
    \/ RandomContextRetriever_retrieve
    \/ SameNounRetriever_retrieve
    \/ NeighborsContextRetriever_retrieve
    \/ LeftContextRetriever_retrieve
    \/ RightContextRetriever_retrieve
    \/ BM25ContextRetriever_retrieve

SpecHeuristic == HeuristicInit /\ [][HeuristicNext]_vars

\* (SpecBM25) one BM25 retriever queried for each sentence of one document,
\* from the first sentence on
BM25SweepInit ==
    /\ retriever \in {r \in Retrievers :
                        r.name = "bm25" /\ r.sents_nb \in {IntNb(1), IntNb(2)}}
    /\ document \in {d \in Documents : Len(d) <= MaxSweepLen}
    /\ sent_idx = 0
    /\ outcome = NoCall
    /\ NeuralIdle
    /\ GenIdle
    /\ BalanceIdle
    /\ BM25Idle
    /\ ItemIdle
    /\ IdealIdle
    /\ BookIdle
    /\ XpIdle

\* the caller goes on to the next sentence of the document
NextSentence ==
    /\ outcome.status = "returned"
    /\ sent_idx + 1 < Len(document)
    /\ sent_idx' = sent_idx + 1
    /\ outcome' = NoCall
    /\ sent_scores' = <<>>
    /\ UNCHANGED <<retriever, document, bm25_models, neuralVars, genVars,
                   balVars, itemVars,
                   idealVars, bookVars, xpVars>>

BM25Next ==
    \/ BM25ContextRetriever_retrieve
    \/ NextSentence

SpecBM25 == BM25SweepInit /\ [][BM25Next]_vars

----------------------------------------------------------------------------
(* A NeuralContextRetriever and the calls it receives *)

RankingMethods == {"score", "combine_rank"}
BatchSizes == {1, 2}

\* the examples predict is called on directly
ExamplePool ==
    { ContextRetrievalExample(<<"Ann", "ran">>, <<"Bob">>, "left", None, None),
      ContextRetrievalExample(<<"Ann", "ran">>, <<"Ann", "ran">>, "left", None, None),
      ContextRetrievalExample(<<"Bob">>, <<"Ann", "ran">>, "right",
                              Some(5), Some(FALSE)) }

PredictInputs == UNION {[1..n -> ExamplePool] : n \in 1..MaxPredictLen}

\* __init__: the cache is empty
NeuralConstructed ==
    /\ neural \in [sents_nb : 1..(MaxSentsNb - 1), use_cache : BOOLEAN,
                    ranking_method : RankingMethods, batch_size : BatchSizes]
    /\ predict_cache = <<>>
    /\ ctx_classifier = <<>>
    /\ ctx_matchs = <<>>
    /\ ctx_dataset = <<>>
    /\ model_inputs = <<>>
    /\ scores = <<>>
    /\ outcome = NoCall
    /\ sent_idx = 0

\* the documents the neural retriever is run on: those of the given length
\* with no two equal sentences in a row
NeuralDocuments(len) ==
    {d \in Documents : Len(d) = len /\ \A k \in 1..(len - 1) : d[k] # d[k + 1]}

\* (SpecNeural) one call on a retriever that ranks by score the candidates of a random
\* draw or of a left window, or by combined rank those of a random draw or of
\* a left window (which have no score) or of BM25
NeuralInit ==
    /\ NeuralConstructed
    /\ neural.batch_size = 2
    /\ neural.use_cache
    /\ retriever \in {r \in Retrievers :
                        /\ ~r.sents_nb.is_list
                        /\ r.name \in {"bm25", "random", "left"}
                        /\ r.sents_nb.ns[1] >= 1}
    /\ retriever.name = "bm25" => neural.ranking_method = "combine_rank"
    /\ document \in NeuralDocuments(4)
    /\ budget = 1
    /\ GenIdle
    /\ BalanceIdle
    /\ BM25Idle
    /\ ItemIdle
    /\ IdealIdle
    /\ BookIdle
    /\ XpIdle

\* a sequence of calls on a retriever wrapping a left window
CacheInit ==
    /\ NeuralConstructed
    /\ neural.ranking_method = "score"
    /\ neural.sents_nb = 1
    /\ retriever = [name |-> "left", sents_nb |-> IntNb(1)]
    /\ document \in NeuralDocuments(3)
    /\ budget = MaxCalls
    /\ GenIdle
    /\ BalanceIdle
    /\ BM25Idle
    /\ ItemIdle
    /\ IdealIdle
    /\ BookIdle
    /\ XpIdle

NeuralContextRetriever_predict ==
    /\ budget > 0
    /\ budget' = budget - 1
    /\ UNCHANGED <<neural, retriever, document, sent_idx, outcome, ctx_matchs,
                   genVars, balVars, bm25Vars, itemVars,
                   idealVars, bookVars, xpVars>>
    /\ \E examples \in PredictInputs :
         /\ ctx_dataset' = examples
         /\ model_inputs' = UncachedExamples(examples, neural.use_cache,
                                              predict_cache)
         /\ \E classifier \in Classifiers(ctx_classifier,
                 UncachedExamples(examples, neural.use_cache, predict_cache)) :
            LET p == Predict(examples, neural.use_cache, neural.batch_size,
                             predict_cache, classifier)
            IN  /\ scores' = p.out_scores
                /\ predict_cache' = p.cache
                /\ ctx_classifier' = classifier

clear_predict_cache_ ==
    /\ budget > 0
    /\ predict_cache' = <<>>
    /\ budget' = budget - 1
    /\ UNCHANGED <<neural, retriever, document, sent_idx, outcome, ctx_matchs,
                   ctx_dataset, model_inputs, scores, ctx_classifier, genVars, balVars, bm25Vars, itemVars,
                   idealVars, bookVars, xpVars>>

set_heuristic_sents_nb_ ==
    /\ budget > 0
    /\ \E n \in 1..MaxSentsNb :
          retriever' = [retriever EXCEPT !.sents_nb = IntNb(n)]
    /\ budget' = budget - 1
    /\ UNCHANGED <<neural, document, sent_idx, outcome, ctx_matchs,
                   ctx_dataset, model_inputs, scores, ctx_classifier, predict_cache, genVars, balVars, bm25Vars, itemVars,
                   idealVars, bookVars, xpVars>>

NeuralContextRetriever_retrieve ==
    /\ budget > 0
    /\ budget' = budget - 1
    /\ \E sidx \in 0..(Len(document) - 1) :
       \E h \in Retrieve(retriever, sidx, document) :
          /\ sent_idx' = sidx
          /\ IF h.status = "raised"
             THEN /\ outcome' = Raised
                  /\ UNCHANGED <<ctx_matchs, ctx_dataset, model_inputs, scores, predict_cache,
                                 ctx_classifier>>
             ELSE IF Len(h.matchs) = 0
             THEN /\ outcome' = Returned(<<>>)
                  /\ ctx_matchs' = <<>>
                  /\ UNCHANGED <<ctx_dataset, model_inputs, scores, predict_cache, ctx_classifier>>
             ELSE LET examples == CtxDataset(At0(document, sidx), h.matchs)
                  IN  \E classifier \in Classifiers(ctx_classifier,
                            UncachedExamples(examples, neural.use_cache, predict_cache)) :
                        LET p == Predict(examples, neural.use_cache, neural.batch_size,
                                         predict_cache, classifier)
                        IN  /\ ctx_matchs' = h.matchs
                            /\ ctx_dataset' = examples
                            /\ model_inputs' = UncachedExamples(examples,
                                                  neural.use_cache, predict_cache)
                            /\ scores' = p.out_scores
                            /\ predict_cache' = p.cache
                            /\ ctx_classifier' = classifier
                            /\ outcome' \in RankedOutcomes(neural, h.matchs, p.out_scores)
    /\ UNCHANGED <<neural, retriever, document, genVars, balVars, bm25Vars, itemVars,
                   idealVars, bookVars, xpVars>>

NeuralNext ==
    \/ NeuralContextRetriever_predict
    \/ clear_predict_cache_
    \/ set_heuristic_sents_nb_
    \/ NeuralContextRetriever_retrieve

SpecNeural == NeuralInit /\ [][NeuralNext]_vars
SpecCache == CacheInit /\ [][NeuralNext]_vars

----------------------------------------------------------------------------
(* Claims on the neural retriever *)

\* C1: with use_cache, every entry of the prediction cache maps an example
\* to the score the classifier computes for that same example.
C1_CacheHoldsClassifierScores ==
    \A e \in DOMAIN predict_cache :
        e \in DOMAIN ctx_classifier /\ predict_cache[e] = ctx_classifier[e]

\* the positions (from 1) in ctx_matchs of the candidates retrieve returned
ReturnedCandidates ==
    {k \in DOMAIN ctx_matchs : ctx_matchs[k].sentence_idx \in MatchIdxs(outcome)}

\* the rank (0 = best) of candidate k under vals, in decreasing order
RankOf(vals, k) == Cardinality({j \in DOMAIN vals : vals[j] > vals[k]})

Distinct(vals) == \A a, b \in DOMAIN vals : a # b => vals[a] # vals[b]

RankedBy(method) ==
    /\ outcome.status = "returned"
    /\ neural.ranking_method = method
    /\ ctx_matchs # <<>>

\* C5: under combine_rank, with distinct heuristic scores and distinct
\* neural scores, the result is the sents_nb candidates with the lowest mean
\* of their rank under the heuristic score and their rank under the neural
\* score.
C5_CombineRankLowestMeanRank ==
    LET h == [k \in DOMAIN ctx_matchs |-> ctx_matchs[k].score[1]]
        MeanRank2(k) == RankOf(h, k) + RankOf(scores, k)
    IN  (RankedBy("combine_rank") /\ Distinct(h) /\ Distinct(scores))
        => /\ Len(outcome.matchs) = Min(neural.sents_nb, Len(ctx_matchs))
           /\ Cardinality(ReturnedCandidates) = Len(outcome.matchs)
           /\ \A i \in ReturnedCandidates :
                 \A j \in DOMAIN ctx_matchs \ ReturnedCandidates :
                    MeanRank2(i) <= MeanRank2(j)

\* C6: under score ranking, the result is exactly the candidates that are
\* among the min(sents_nb, candidates) highest predicted scores and whose
\* predicted score is > 0; no returned match has a score <= 0.
C6_ScoreRankingTopPositive ==
    RankedBy("score")
    => /\ \A k \in DOMAIN outcome.matchs : outcome.matchs[k].score[1] > 0
       /\ Cardinality(ReturnedCandidates) = Len(outcome.matchs)
       /\ \A k \in DOMAIN outcome.matchs :
             \E c \in DOMAIN ctx_matchs :
                /\ ctx_matchs[c].sentence_idx = outcome.matchs[k].sentence_idx
                /\ outcome.matchs[k].score = Some(scores[c])
       /\ \E T \in SUBSET DOMAIN ctx_matchs :
             /\ Cardinality(T) = Min(neural.sents_nb, Len(ctx_matchs))
             /\ \A i \in T : \A j \in DOMAIN ctx_matchs \ T : scores[i] >= scores[j]
             /\ ReturnedCandidates = {i \in T : scores[i] > 0}

\* the example of the claim: scores 0.9, -0.2, 0.4 and sents_nb = 2 select
\* the candidates 0 and 2
C6_Witness ==
    /\ RankedBy("score")
    /\ scores = <<9, -2, 4>>
    /\ neural.sents_nb = 2
    /\ ReturnedCandidates = {1, 3}

\* a candidate of the top sents_nb is dropped because its score is not > 0
C6_WitnessDropped ==
    /\ RankedBy("score")
    /\ Len(ctx_matchs) = 2
    /\ neural.sents_nb = 2
    /\ Len(outcome.matchs) = 1
    /\ \E k \in DOMAIN scores : scores[k] = 0

\* C21: retrieve with ranking_method 'combine_rank' fails with an error and
\* returns no matches whenever the wrapped heuristic returns a non-empty
\* candidate list in which at least one match has score None.
C21_CombineRankNeedsScores ==
    (/\ outcome.status # "none"
     /\ neural.ranking_method = "combine_rank"
     /\ \E k \in DOMAIN ctx_matchs : ctx_matchs[k].score = None)
        => outcome = Raised

\* retrieve has failed under combine_rank on the candidates of a random draw
C21_Witness ==
    /\ outcome = Raised
    /\ neural.ranking_method = "combine_rank"
    /\ retriever.name = "random"
    /\ Len(ctx_matchs) >= 2
    /\ \A k \in DOMAIN ctx_matchs : ctx_matchs[k].score = None

\* C22: retrieve (both ranking methods): the result is empty when the
\* wrapped heuristic returns no candidate; otherwise every returned match is
\* one of the heuristic's candidates, taken at most once, with its sentence,
\* sentence_idx and side unchanged, and with score replaced by the neural
\* score predicted for that same candidate.
C22_ReturnedAreRescoredCandidates ==
    outcome.status = "returned" =>
        /\ ctx_matchs = <<>> => outcome.matchs = <<>>
        /\ \A i \in DOMAIN outcome.matchs :
              \E k \in DOMAIN ctx_matchs :
                  outcome.matchs[i] =
                      [ctx_matchs[k] EXCEPT !.score = Some(scores[k])]
        /\ \A i, j \in DOMAIN outcome.matchs :
              i # j => outcome.matchs[i].sentence_idx # outcome.matchs[j].sentence_idx

\* two of three candidates are returned, not the first two, each with the
\* score predicted for it, and the three scores differ
C22_Witness ==
    /\ outcome.status = "returned"
    /\ Len(ctx_matchs) = 3
    /\ Len(outcome.matchs) = 2
    /\ Distinct(scores)
    /\ ReturnedCandidates = {2, 3}

\* the heuristic has returned no candidate and so has retrieve
C22_WitnessEmpty ==
    /\ outcome = Returned(<<>>)
    /\ retriever.name = "left"
    /\ sent_idx = 0
    /\ ctx_matchs = <<>>

\* what a call of predict leaves: one score per example of the dataset, in
\* the order of the dataset, the value the cache held when the call started
\* for an example that was in it and the output of the classifier for the
\* others, the classifier having been run on examples absent from the cache
PredictPost ==
    /\ Len(scores') = Len(ctx_dataset')
    /\ \A i \in DOMAIN ctx_dataset' :
          LET e == ctx_dataset'[i]
          IN  scores'[i] = IF neural.use_cache /\ e \in DOMAIN predict_cache
                           THEN predict_cache[e]
                           ELSE ctx_classifier'[e]
    /\ neural.use_cache =>
          \A k \in DOMAIN model_inputs' : model_inputs'[k] \notin DOMAIN predict_cache

\* C19: predict returns exactly one score per input example, in input
\* order, for any batch size and any mix of cached and uncached examples:
\* entry i is the cached value of example i when it was in the cache at call
\* time, otherwise the model output for example i; with caching on, only
\* the examples absent from the cache are passed to the model.
C19_PredictScores == [][NeuralContextRetriever_predict => PredictPost]_vars

\* predict has been called on a cached example followed by an uncached one
\* and has returned two different scores
C19_Witness ==
    /\ neural.use_cache
    /\ Len(ctx_dataset) = 2
    /\ Len(scores) = 2
    /\ model_inputs = <<ctx_dataset[2]>>
    /\ ctx_dataset[1] # ctx_dataset[2]
    /\ scores[1] # scores[2]

\* every entry of the cache is kept with its value
CacheKept ==
    \A e \in DOMAIN predict_cache :
        e \in DOMAIN predict_cache' /\ predict_cache'[e] = predict_cache[e]

\* C20: the prediction cache is append-only between clears: across predict
\* and retrieve calls an example that has a cache entry keeps it with an
\* unchanged value until clear_predict_cache_ is called; clear_predict_cache_
\* empties the cache; with use_cache = False the cache stays empty.
C20_CacheAppendOnly ==
    [][/\ clear_predict_cache_ => predict_cache' = <<>>
       /\ ~clear_predict_cache_ => CacheKept
       /\ ~neural.use_cache => predict_cache' = <<>>]_vars

\* the last predict found all its examples in the cache, more than one
\* call after the construction
C20_Witness ==
    /\ neural.use_cache
    /\ budget <= MaxCalls - 2
    /\ Len(ctx_dataset) = 2
    /\ ctx_dataset[1] # ctx_dataset[2]
    /\ model_inputs = <<>>
    /\ \A k \in DOMAIN ctx_dataset : ctx_dataset[k] \in DOMAIN predict_cache

----------------------------------------------------------------------------
(* Claims on the heuristic retrievers *)

\* C2: no match returned by a heuristic retriever is the target sentence
\* itself (sentence_idx = sent_idx), for an integer sents_nb >= 0.
C2_NoSelfMatch ==
    (outcome.status = "returned" /\ ~retriever.sents_nb.is_list)
        => sent_idx \notin MatchIdxs(outcome)

\* C3: a heuristic retriever never raises; when fewer sentences are
\* available than sents_nb asks for it returns those that are available.
C3_NeverRaises == outcome.status # "raised"

\* C4: with an integer sents_nb a returned result holds at most sents_nb
\* matches and at most len(document) - 1 matches.
C4_SizeContract ==
    (outcome.status = "returned" /\ ~retriever.sents_nb.is_list)
        => /\ Len(outcome.matchs) <= retriever.sents_nb.ns[1]
           /\ Len(outcome.matchs) <= Len(document) - 1

\* a call of BM25ContextRetriever.retrieve with an integer sents_nb = k
BM25Called(k) ==
    /\ retriever.name = "bm25"
    /\ retriever.sents_nb = IntNb(k)
    /\ outcome.status # "none"

\* C14: with an integer k = sents_nb <= len(document) - 1, BM25 returns k
\* sentences other than the target, no other sentence than the target and
\* the returned ones has a score strictly higher than a returned one, and
\* each match carries the score of its sentence
C14_BM25TopKOfTheOthers ==
    \A k \in 0..MaxSentsNb :
        (BM25Called(k) /\ k <= Len(document) - 1)
            => /\ outcome.status = "returned"
               /\ Len(outcome.matchs) = k
               /\ Cardinality(MatchIdxs(outcome)) = k
               /\ sent_idx \notin MatchIdxs(outcome)
               /\ \A m \in DOMAIN outcome.matchs :
                     /\ outcome.matchs[m].score =
                            Some(sent_scores[outcome.matchs[m].sentence_idx])
                     /\ outcome.matchs[m].sentence =
                            At0(document, outcome.matchs[m].sentence_idx)
                     /\ \A j \in (DOMAIN sent_scores \ MatchIdxs(outcome))
                                    \ {sent_idx} :
                           sent_scores[j] <= outcome.matchs[m].score[1]

\* C15: BM25 returns its matchs by increasing position in the document
C15_BM25SortedByPosition ==
    (retriever.name = "bm25" /\ outcome.status = "returned")
        => \A a, b \in DOMAIN outcome.matchs :
              a < b => outcome.matchs[a].sentence_idx
                           < outcome.matchs[b].sentence_idx

\* C16: over the calls of retrieve made on one document, one for each
\* sentence, the BM25 index of the document is built at most once
C16_IndexBuiltOnce == bm25_models <= 1

----------------------------------------------------------------------------
(* Generation of a context retrieval dataset *)

\* train_dataset.tags, in the order of their ids
Tags == <<"B-PER", "O">>

\* train_dataset.tag_to_id[tag]
tag_to_id(tag) == CHOOSE i \in 0..(Len(Tags) - 1) : At0(Tags, i) = tag

\* the rows a NER prediction may have in its scores: one score per tag id
ScoreRows == {<<2, 8>>, <<7, 3>>}

\* the tags whose score is the highest of the row
BestTags(row) ==
    {At0(Tags, i) : i \in {j \in 0..(Len(Tags) - 1) :
                              \A l \in 0..(Len(Tags) - 1) :
                                  At0(row, l) <= At0(row, j)}}

\* what predict(ner_model, ...) may give for a sentence: its tags and its
\* (sentence_size, vocab_size) scores
NERPredictions(sent) ==
    {p \in [tags : [1..Len(sent.tokens) -> SeqToSet(Tags)],
            scores : [1..Len(sent.tokens) -> ScoreRows]] :
        \A k \in 1..Len(sent.tokens) : p.tags[k] \in BestTags(p.scores[k])}

\* preds_ctx.scores: one prediction of the sentence for each of the n
\* sentences with context
CtxPredictions(sent, n) ==
    [1..n -> {p.scores : p \in NERPredictions(sent)}]

_pred_error(sent, scores_of_pred) ==
    LET errs == {Scale - At0(scores_of_pred[k], tag_to_id(sent.tags[k])) :
                    k \in 1..Len(sent.tags)}
    IN  CHOOSE m \in errs : \A e \in errs : e <= m

\* train_dataset.sents(): the sentences of all the documents, flattened
RECURSIVE sents(_)
sents(documents) ==
    IF documents = <<>> THEN <<>>
    ELSE Head(documents) \o sents(Tail(documents))

\* the position, in train_dataset.documents, of the document of the
\* sentence i of sents()
RECURSIVE DocumentOf(_, _)
DocumentOf(documents, i) ==
    IF i < Len(Head(documents)) THEN 1
    ELSE 1 + DocumentOf(Tail(documents), i - Len(Head(documents)))

document_for_sent(documents, i) == documents[DocumentOf(documents, i)]

sent_document_index(documents, i) ==
    i - Len(sents(SubSeq(documents, 1, DocumentOf(documents, i) - 1)))

sent_with_ctx_from_matchs(sent, matchs) ==
    [k \in 1..Len(matchs) |->
        [tokens |-> sent.tokens, tags |-> sent.tags,
         left_context |-> IF matchs[k].side = "left"
                          THEN <<matchs[k].sentence>> ELSE <<>>,
         right_context |-> IF matchs[k].side = "right"
                           THEN <<matchs[k].sentence>> ELSE <<>>]]

\* (mutant) the difference is taken the other way round
Usefulnesses_ctx_minus_baseline(sent, scores_of_pred, scores_of_ctx, matchs) ==
    [k \in 1..Min(Len(scores_of_ctx), Len(matchs)) |->
        _pred_error(sent, scores_of_ctx[k]) - _pred_error(sent, scores_of_pred)]

\* usefulnesses: for each candidate, the error of the unaided prediction
\* minus the error of the prediction with the candidate as context
Usefulnesses(sent, scores_of_pred, scores_of_ctx, matchs) ==
    [k \in 1..Min(Len(scores_of_ctx), Len(matchs)) |->
        _pred_error(sent, scores_of_pred) - _pred_error(sent, scores_of_ctx[k])]

ContextSides(scores_of_ctx, matchs) ==
    [k \in 1..Min(Len(scores_of_ctx), Len(matchs)) |-> matchs[k].side]

ExampleOf(sent, tags_of_pred, usefulness, context_side, ctx_sent) ==
    ContextRetrievalExample(
        sent.tokens,
        IF Len(ctx_sent.left_context) = 1
        THEN ctx_sent.left_context[1].tokens
        ELSE ctx_sent.right_context[1].tokens,
        context_side,
        Some(usefulness),
        Some(sent.tags = tags_of_pred))

\* (mutant) only the candidates above the threshold give an example
NewExamples_only_useful(sent, tags_of_pred, usefulnesses, sides, ctx_sents, threshold) ==
    LET n == Min(Len(usefulnesses), Min(Len(sides), Len(ctx_sents)))
        all == [k \in 1..n |->
                   ExampleOf(sent, tags_of_pred, usefulnesses[k],
                             sides[k], ctx_sents[k])]
    IN  SelectSeq(all, LAMBDA ex : ex.usefulness[1] > threshold)

\* the examples a sentence adds to ctx_selection_examples: one for each
\* candidate if one of the usefulnesses is greater than the threshold
NewExamples(sent, tags_of_pred, usefulnesses, sides, ctx_sents, threshold) ==
    IF \E k \in 1..Len(usefulnesses) : usefulnesses[k] > threshold
    THEN LET n == Min(Len(usefulnesses),
                      Min(Len(sides), Len(ctx_sents)))
         IN  [k \in 1..n |->
                 ExampleOf(sent, tags_of_pred, usefulnesses[k],
                           sides[k], ctx_sents[k])]
    ELSE <<>>

MaxCorpusTokens == 4

Tokens(sentences) ==
    IF sentences = <<>> THEN 0
    ELSE Len(sents([k \in 1..Len(sentences) |-> sentences[k].tokens]))

\* the sentences of a dataset, flattened
CorpusSents ==
    {ss \in UNION {[1..n -> Sentences] : n \in 1..MaxCorpusSents} :
        Tokens(ss) <= MaxCorpusTokens}

\* the documents made of the sentences ss, the last sentence of each
\* document being at one of the positions ends
DocumentsOf(ss, ends) ==
    LET e == SortedSeq(ends)
    IN  [k \in 1..Len(e) |->
            SubSeq(ss, IF k = 1 THEN 1 ELSE e[k - 1] + 1, e[k])]

\* the datasets given to generate_context_dataset
Corpora ==
    {c \in UNION {{DocumentsOf(ss, cut \cup {Len(ss)}) :
                       cut \in SUBSET (1..(Len(ss) - 1))} : ss \in CorpusSents} :
        \A k \in 1..Len(c) : Len(c[k]) <= MaxDocLen}

\* preliminary_ctx_selector, built from heuristic_context_selector and
\* heuristic_context_selector_kwargs
Selectors ==
    {r \in Retrievers :
        \/ r.name = "random" /\ r.sents_nb \in {IntNb(1), IntNb(2)}
        \/ r.name = "right" /\ r.sents_nb = IntNb(1)}

\* the call of generate_context_dataset, at the head of its loop
GenInit ==
    /\ gen \in [train_dataset : Corpora,
                max_examples_nb : {None} \cup {Some(n) : n \in 1..MaxExamplesNb},
                examples_usefulness_threshold : {0, 1},
                skip_correct : BOOLEAN]
    /\ retriever \in Selectors
    /\ gen_pc = "start"
    /\ sent_i = 0
    /\ ctx_selection_examples = <<>>
    /\ pred_tags = <<>>
    /\ pred_scores = <<>>
    /\ preds_ctx = <<>>
    /\ document = <<>>
    /\ sent_idx = 0
    /\ outcome = NoCall
    /\ NeuralIdle
    /\ BalanceIdle
    /\ BM25Idle
    /\ ItemIdle
    /\ IdealIdle
    /\ BookIdle
    /\ XpIdle

AtLoopHead == gen_pc \in {"start", "continue", "next"}

CapReached ==
    /\ gen.max_examples_nb # None
    /\ Len(ctx_selection_examples) >= gen.max_examples_nb[1]

\* an iteration that ends at 'continue': the sentence is skipped
generate_context_dataset_continue ==
    /\ AtLoopHead
    /\ sent_i < Len(sents(gen.train_dataset))
    /\ LET sent == At0(sents(gen.train_dataset), sent_i)
       IN  \E p \in NERPredictions(sent) :
               /\ gen.skip_correct /\ p.tags = sent.tags
               /\ pred_tags' = p.tags
               /\ pred_scores' = p.scores
    /\ sent_i' = sent_i + 1
    /\ gen_pc' = "continue"
    /\ UNCHANGED <<gen, ctx_selection_examples, preds_ctx, heurVars, neural,
                   predict_cache, ctx_classifier, ctx_matchs, ctx_dataset, model_inputs,
                   scores, budget, balVars, bm25Vars, itemVars,
                   idealVars, bookVars, xpVars>>

\* an iteration that ends at 'break': enough examples were generated
generate_context_dataset_break ==
    /\ AtLoopHead
    /\ sent_i < Len(sents(gen.train_dataset))
    /\ LET sent == At0(sents(gen.train_dataset), sent_i)
       IN  \E p \in NERPredictions(sent) :
               /\ ~(gen.skip_correct /\ p.tags = sent.tags)
               /\ pred_tags' = p.tags
               /\ pred_scores' = p.scores
    /\ CapReached
    /\ ctx_selection_examples' =
           SubSeq(ctx_selection_examples, 1, gen.max_examples_nb[1])
    /\ document' = document_for_sent(gen.train_dataset, sent_i)
    /\ gen_pc' = "returned"
    /\ UNCHANGED <<gen, sent_i, preds_ctx, retriever, sent_idx, outcome, neural,
                   predict_cache, ctx_classifier, ctx_matchs, ctx_dataset, model_inputs,
                   scores, budget, balVars, bm25Vars, itemVars,
                   idealVars, bookVars, xpVars>>

\* an iteration that runs the body of the loop to its end, or to the
\* exception of the retriever
generate_context_dataset_body ==
    /\ AtLoopHead
    /\ sent_i < Len(sents(gen.train_dataset))
    /\ ~CapReached
    /\ LET sent == At0(sents(gen.train_dataset), sent_i)
           index_in_doc == sent_document_index(gen.train_dataset, sent_i)
       IN  /\ document' = document_for_sent(gen.train_dataset, sent_i)
           /\ sent_idx' = index_in_doc
           /\ \E p \in NERPredictions(sent) :
                  /\ ~(gen.skip_correct /\ p.tags = sent.tags)
                  /\ pred_tags' = p.tags
                  /\ pred_scores' = p.scores
           /\ \E o \in Retrieve(retriever, index_in_doc, document') :
                  /\ outcome' = o
                  /\ IF o.status = "raised"
                     THEN /\ gen_pc' = "raised"
                          /\ UNCHANGED <<sent_i, ctx_matchs, preds_ctx,
                                         ctx_selection_examples>>
                     ELSE /\ ctx_matchs' = o.matchs
                          /\ preds_ctx' \in CtxPredictions(sent, Len(o.matchs))
                          /\ ctx_selection_examples' =
                                 ctx_selection_examples \o
                                 NewExamples(
                                     sent, pred_tags',
                                     Usefulnesses(sent, pred_scores',
                                                  preds_ctx', ctx_matchs'),
                                     ContextSides(preds_ctx', ctx_matchs'),
                                     sent_with_ctx_from_matchs(sent, ctx_matchs'),
                                     gen.examples_usefulness_threshold)
                          /\ sent_i' = sent_i + 1
                          /\ gen_pc' = "next"
    /\ UNCHANGED <<gen, retriever, neural, predict_cache, ctx_classifier,
                   ctx_dataset, model_inputs, scores, budget, balVars, bm25Vars, itemVars,
                   idealVars, bookVars, xpVars>>

\* the end of the loop: the examples are returned
generate_context_dataset_return ==
    /\ AtLoopHead
    /\ sent_i = Len(sents(gen.train_dataset))
    /\ gen_pc' = "returned"
    /\ UNCHANGED <<gen, sent_i, ctx_selection_examples, pred_tags, pred_scores,
                   preds_ctx, heurVars, neuralVars, balVars, bm25Vars, itemVars,
                   idealVars, bookVars, xpVars>>

GenNext ==
    \/ generate_context_dataset_continue
    \/ generate_context_dataset_break
    \/ generate_context_dataset_body
    \/ generate_context_dataset_return

SpecGen == GenInit /\ [][GenNext]_vars

\* C7: when max_examples_nb is not None, the returned dataset holds at most
\* max_examples_nb examples
C7_AtMostMaxExamples ==
    (gen_pc = "returned" /\ gen.max_examples_nb # None)
        => Len(ctx_selection_examples) <= gen.max_examples_nb[1]

\* a returned dataset larger than its max_examples_nb
C7_Exceeded ==
    /\ gen_pc = "returned"
    /\ gen.max_examples_nb # None
    /\ Len(ctx_selection_examples) > gen.max_examples_nb[1]

\* the sentence of the iteration that has just ended
LastSent == At0(sents(gen.train_dataset), sent_i - 1)

\* C8: an iteration that runs the body for a sentence adds to the examples
\* either one example for each candidate of the pool or nothing, and it adds
\* them exactly when the usefulness of one candidate is strictly greater
\* than examples_usefulness_threshold
C8_AllOrNothing ==
    [][gen_pc' = "next" =>
          LET sent == At0(sents(gen.train_dataset), sent_i)
              before == Len(ctx_selection_examples)
              added == Len(ctx_selection_examples') - before
              useful ==
                  \E k \in 1..Len(ctx_matchs') :
                      _pred_error(sent, pred_scores')
                          - _pred_error(sent, preds_ctx'[k])
                        > gen.examples_usefulness_threshold
          IN  /\ SubSeq(ctx_selection_examples', 1, before)
                     = ctx_selection_examples
              /\ added = IF useful THEN Len(ctx_matchs') ELSE 0]_vars

\* a pool of two candidates, one useful and one not, both emitted
C8_Witness ==
    /\ gen_pc = "next"
    /\ Len(ctx_matchs) = 2
    /\ Len(ctx_selection_examples) = 2
    /\ ctx_selection_examples[1].usefulness[1]
           <= gen.examples_usefulness_threshold
    /\ ctx_selection_examples[2].usefulness[1]
           > gen.examples_usefulness_threshold

\* C9: the example added for a candidate carries the tokens of the sentence,
\* the tokens and the side of the candidate, the error of the unaided
\* prediction minus the error of the prediction with the candidate as
\* context, and whether the unaided predicted tags are the gold tags
C9_ExampleFields ==
    [][gen_pc' = "next" =>
          LET sent == At0(sents(gen.train_dataset), sent_i)
              before == Len(ctx_selection_examples)
          IN  \A k \in (before + 1)..Len(ctx_selection_examples') :
                  LET j == k - before
                      ex == ctx_selection_examples'[k]
                  IN  /\ j <= Len(ctx_matchs')
                      /\ ex.sent = sent.tokens
                      /\ ex.context = ctx_matchs'[j].sentence.tokens
                      /\ ex.context_side = ctx_matchs'[j].side
                      /\ ex.context_side = SideOf(ctx_matchs'[j].sentence_idx,
                                                  sent_idx')
                      /\ ex.usefulness =
                             Some(_pred_error(sent, pred_scores')
                                      - _pred_error(sent, preds_ctx'[j]))
                      /\ ex.sent_was_correctly_predicted =
                             Some(pred_tags' = sent.tags)]_vars

\* baseline error 0.8, one candidate with error 0.3, threshold 0.1: one
\* example, of usefulness 0.5
C9_Witness ==
    /\ gen_pc = "next"
    /\ gen.examples_usefulness_threshold = 1
    /\ Len(ctx_matchs) = 1
    /\ _pred_error(LastSent, pred_scores) = 8
    /\ _pred_error(LastSent, preds_ctx[1]) = 3
    /\ Len(ctx_selection_examples) = 1
    /\ ctx_selection_examples[1].usefulness = Some(5)
    /\ ctx_selection_examples[1].context_side = ctx_matchs[1].side
    /\ ctx_selection_examples[1].sent_was_correctly_predicted = Some(FALSE)

----------------------------------------------------------------------------
(* Balancing of a context retrieval dataset *)

MaxBalanceLen == 4

\* the usefulnesses of the examples of the datasets given to
\* balance_context_dataset
UsefulnessVals == {-9, -8, 0, 9, 10}

BalanceExamples ==
    {ContextRetrievalExample(<<"Bob">>, <<"Ann", "ran">>, "left", Some(u),
                             Some(c)) :
        u \in UsefulnessVals, c \in BOOLEAN}

BinsNbs == {2, 3, 4}

correctly_predicted(examples) ==
    SelectSeq(examples, LAMBDA ex : ex.sent_was_correctly_predicted = Some(TRUE))

incorrectly_predicted(examples) ==
    SelectSeq(examples, LAMBDA ex : ex.sent_was_correctly_predicted # Some(TRUE))

\* ex.usefulness < bin_right_edges[k - 1], the edges being
\* -1 + k * (2.0 / bins_nb) for k = 1 .. bins_nb
BelowEdge(usefulness, k, bins_nb) ==
    usefulness * bins_nb < Scale * (2 * k - bins_nb)

\* (mutant) the examples already added to a bin are not taken out of the
\* following bins
Bins_keeping_already_added(examples, bins_nb, k, already_added_examples) ==
    [j \in k..bins_nb |->
        {ex \in SeqToSet(examples) : BelowEdge(ex.usefulness[1], j, bins_nb)}]

\* bins: the k-th one holds the examples below the k-th edge that no
\* earlier bin holds, as a set
RECURSIVE Bins(_, _, _, _)
Bins(examples, bins_nb, k, already_added_examples) ==
    IF k > bins_nb THEN <<>>
    ELSE LET bin_examples ==
                 {ex \in SeqToSet(examples) :
                     BelowEdge(ex.usefulness[1], k, bins_nb)}
         IN  <<bin_examples \ already_added_examples>>
                 \o Bins(examples, bins_nb, k + 1,
                         already_added_examples \cup bin_examples)

\* (mutant) a bin is returned whole
Truncations_whole_bin(bin, min_bin_len) ==
    InjSeqs(bin, Cardinality(bin))

\* b[:min_bin_len] for a list b made from a set: any min_bin_len of its
\* elements, in any order
Truncations(bin, min_bin_len) ==
    InjSeqs(bin, Min(min_bin_len, Cardinality(bin)))

\* flattened(bins), for every way of truncating the bins
RECURSIVE Flattened(_, _)
Flattened(bins, min_bin_len) ==
    IF bins = <<>> THEN {<<>>}
    ELSE {b \o rest : b \in Truncations(Head(bins), min_bin_len),
                      rest \in Flattened(Tail(bins), min_bin_len)}

BalReturned(examples) ==
    [status |-> "returned", examples |-> examples, error |-> ""]
BalRaised(error) == [status |-> "raised", examples |-> <<>>, error |-> error]

\* examples: what the first stage keeps of the dataset
StageOne(dataset) ==
    LET correct == correctly_predicted(dataset)
        incorrect == incorrectly_predicted(dataset)
        min_len == Min(Len(correct), Len(incorrect))
    IN  SubSeq(correct, 1, min_len) \o SubSeq(incorrect, 1, min_len)

\* (mutant) the group of the incorrectly predicted is not asserted on
AssertsHold_only_correct(dataset) ==
    /\ Len(dataset) > 0
    /\ Len(correctly_predicted(dataset)) > 0

\* the asserts of the function hold for the dataset
AssertsHold(dataset) ==
    /\ Len(dataset) > 0
    /\ Len(correctly_predicted(dataset)) > 0
    /\ Len(incorrectly_predicted(dataset)) > 0

\* what balance_context_dataset(dataset, bins_nb) may do
BalanceOutcomes(dataset, bins_nb) ==
    LET bins == Bins(StageOne(dataset), bins_nb, 1, {})
        bin_lens == {Cardinality(bins[k]) : k \in 1..Len(bins)} \ {0}
    IN  IF ~AssertsHold(dataset)
        THEN {BalRaised("AssertionError")}
        ELSE IF bin_lens = {}
        THEN {BalRaised("ValueError")}
        ELSE LET min_bin_len == CHOOSE m \in bin_lens : \A l \in bin_lens : m <= l
             IN  {BalReturned(r) : r \in Flattened(bins, min_bin_len)}

BalanceInit ==
    /\ bal \in [dataset : UNION {[1..n -> BalanceExamples] : n \in 0..MaxBalanceLen},
                bins_nb : BinsNbs]
    /\ bal_bins = <<>>
    /\ bal_outcome = [status |-> "none", examples |-> <<>>, error |-> ""]
    /\ retriever = [name |-> "random", sents_nb |-> IntNb(0)]
    /\ document = <<>>
    /\ sent_idx = 0
    /\ outcome = NoCall
    /\ NeuralIdle
    /\ GenIdle
    /\ BM25Idle
    /\ ItemIdle
    /\ IdealIdle
    /\ BookIdle
    /\ XpIdle

balance_context_dataset ==
    /\ bal_outcome.status = "none"
    /\ bal_outcome' \in BalanceOutcomes(bal.dataset, bal.bins_nb)
    /\ bal_bins' = IF AssertsHold(bal.dataset)
                   THEN Bins(StageOne(bal.dataset), bal.bins_nb, 1, {})
                   ELSE <<>>
    /\ UNCHANGED <<bal, heurVars, neuralVars, genVars, bm25Vars, itemVars,
                   idealVars, bookVars, xpVars>>

BalanceNext == balance_context_dataset

SpecBalance == BalanceInit /\ [][BalanceNext]_vars

CountOf(examples, flag) ==
    Cardinality({k \in 1..Len(examples) :
                    examples[k].sent_was_correctly_predicted = Some(flag)})

\* C10: a returned dataset holds as many examples whose sentence was
\* correctly predicted as examples whose sentence was not
C10_SameNumberOfCorrectAndIncorrect ==
    bal_outcome.status = "returned"
        => CountOf(bal_outcome.examples, TRUE)
               = CountOf(bal_outcome.examples, FALSE)

\* the call has passed the asserts and formed its bins
Binned == bal_outcome.status # "none" /\ AssertsHold(bal.dataset)

\* the bins (from 1) whose right edge, -1 + k * 2 / bins_nb, is greater
\* than the usefulness
EdgesAbove(usefulness) ==
    {k \in 1..bal.bins_nb :
        usefulness * bal.bins_nb < (2 * k - bal.bins_nb) * Scale}

BinsHolding(ex) == {k \in 1..Len(bal_bins) : ex \in bal_bins[k]}

\* C11: every example kept by the first stage whose usefulness is in
\* [-1, 1] is in exactly one bin, the first one whose right edge is greater
\* than its usefulness
C11_OneBinForEachExample ==
    Binned =>
        \A ex \in SeqToSet(StageOne(bal.dataset)) :
            (-Scale <= ex.usefulness[1] /\ ex.usefulness[1] <= Scale)
                => /\ Cardinality(BinsHolding(ex)) = 1
                   /\ \E k \in EdgesAbove(ex.usefulness[1]) :
                         /\ BinsHolding(ex) = {k}
                         /\ \A l \in EdgesAbove(ex.usefulness[1]) : k <= l

\* the number of returned examples that are in the bin k
ReturnedOfBin(k) ==
    Cardinality({i \in 1..Len(bal_outcome.examples) :
                    bal_outcome.examples[i] \in bal_bins[k]})

NonEmptyBinLens == {Cardinality(bal_bins[k]) : k \in 1..Len(bal_bins)} \ {0}

\* C12: the returned dataset holds, of every bin that is not empty, as many
\* examples as the smallest non-empty bin had before truncation, and
\* nothing of the empty bins; it holds nothing else
C12_BinsOfEqualSize ==
    bal_outcome.status = "returned" =>
        /\ Len(bal_bins) = bal.bins_nb
        /\ \A k \in 1..Len(bal_bins) :
              /\ bal_bins[k] = {} => ReturnedOfBin(k) = 0
              /\ bal_bins[k] # {} =>
                    /\ ReturnedOfBin(k) \in NonEmptyBinLens
                    /\ \A l \in NonEmptyBinLens : ReturnedOfBin(k) <= l
        /\ \A i \in 1..Len(bal_outcome.examples) :
              /\ \E k \in 1..Len(bal_bins) : bal_outcome.examples[i] \in bal_bins[k]
              /\ \A j \in 1..Len(bal_outcome.examples) :
                    i # j => bal_outcome.examples[i] # bal_outcome.examples[j]

\* a bin of two examples cut to one, next to an empty bin
C12_Witness ==
    /\ bal_outcome.status = "returned"
    /\ \E k \in 1..Len(bal_bins) : bal_bins[k] = {}
    /\ \E k \in 1..Len(bal_bins) :
          Cardinality(bal_bins[k]) = 2 /\ ReturnedOfBin(k) = 1

\* the cases of C13: a correctness group without example, or no example in
\* any bin
NoGroup ==
    \/ Len(correctly_predicted(bal.dataset)) = 0
    \/ Len(incorrectly_predicted(bal.dataset)) = 0

AllBinsEmpty ==
    /\ ~NoGroup
    /\ \A ex \in SeqToSet(StageOne(bal.dataset)) :
           EdgesAbove(ex.usefulness[1]) = {}

----------------------------------------------------------------------------
(* ContextRetrievalDataset.__getitem__ *)

MaxItems == 2
MaxIdealDocLen == 4
MaxBookLines == 4
MaxRuns == 2
MaxFolds == 3

\* the values of context_side: the two of the Literal type and one outside
SideVals == {"left", "right", "both"}

ItemExamples ==
    {ContextRetrievalExample(s, c, side, u, None) :
        s \in {<<"Ann", "ran">>, <<"Bob">>},
        c \in {<<"Ann", "ran">>, <<"Bob">>},
        side \in SideVals,
        u \in {None, Some(-5), Some(0), Some(5)}}

\* the tokenizer, as far as __getitem__ goes: the encoding keeps the words
\* it was given
Tokenize(tokens) == [words |-> tokens, label |-> None]

\* (mutant) the context is put after the sentence on both sides
GetItem_context_last(example) ==
    IF example.context_side \notin {"left", "right"}
    THEN [status |-> "raised", batch |-> <<>>, error |-> "ValueError"]
    ELSE LET tokens == IF example.context_side = "left"
                       THEN example.sent \o <<"<">> \o example.context
                       ELSE example.sent \o <<">">> \o example.context
             batch == Tokenize(tokens)
         IN  [status |-> "returned",
              batch |-> IF example.usefulness # None
                        THEN [batch EXCEPT !.label = example.usefulness]
                        ELSE batch,
              error |-> ""]

\* __getitem__ for the example at the index
GetItem(example) ==
    IF example.context_side \notin {"left", "right"}
    THEN [status |-> "raised", batch |-> <<>>, error |-> "ValueError"]
    ELSE LET tokens == IF example.context_side = "left"
                       THEN example.context \o <<"<">> \o example.sent
                       ELSE example.sent \o <<">">> \o example.context
             batch == Tokenize(tokens)
         IN  [status |-> "returned",
              batch |-> IF example.usefulness # None
                        THEN [batch EXCEPT !.label = example.usefulness]
                        ELSE batch,
              error |-> ""]

ItemInit ==
    /\ item_dataset \in UNION {[1..n -> ItemExamples] : n \in 1..MaxItems}
    /\ item_index \in 0..(Len(item_dataset) - 1)
    /\ item_outcome = [status |-> "none", batch |-> <<>>, error |-> ""]
    /\ retriever = [name |-> "random", sents_nb |-> IntNb(0)]
    /\ document = <<>>
    /\ sent_idx = 0
    /\ outcome = NoCall
    /\ NeuralIdle
    /\ GenIdle
    /\ BalanceIdle
    /\ BM25Idle
    /\ IdealIdle
    /\ BookIdle
    /\ XpIdle

ContextRetrievalDataset_getitem ==
    /\ item_outcome.status = "none"
    /\ item_outcome' = GetItem(At0(item_dataset, item_index))
    /\ UNCHANGED <<item_dataset, item_index, heurVars, neuralVars, genVars,
                   balVars, bm25Vars, idealVars, bookVars, xpVars>>

ItemNext == ContextRetrievalDataset_getitem

SpecItem == ItemInit /\ [][ItemNext]_vars

C24_ReturnedAreDistinctInputs ==
    bal_outcome.status = "returned" =>
        /\ \A i \in DOMAIN bal_outcome.examples :
              \E k \in DOMAIN bal.dataset : bal_outcome.examples[i] = bal.dataset[k]
        /\ \A i, j \in DOMAIN bal_outcome.examples :
              i # j => bal_outcome.examples[i] # bal_outcome.examples[j]

\* the input holds the same example twice, among the examples the first
\* stage keeps, and the result holds it
C24_Witness ==
    /\ bal_outcome.status = "returned"
    /\ Len(bal.dataset) = 4
    /\ bal.dataset[1] = bal.dataset[2]
    /\ bal.dataset[3] = bal.dataset[4]
    /\ \E i \in DOMAIN bal_outcome.examples : bal_outcome.examples[i] = bal.dataset[1]
    /\ \E i \in DOMAIN bal_outcome.examples : bal_outcome.examples[i] = bal.dataset[3]

----------------------------------------------------------------------------
(* IdealNeuralContextRetriever *)

\* sorted(tags) of retrieve, in the order of the ids of tag_to_id
IdealTags == <<"B-PER", "I-PER", "O">>

ideal_tag_to_id(tag) == CHOOSE i \in 0..(Len(IdealTags) - 1) : At0(IdealTags, i) = tag

\* the rows the scores of a prediction may have: one score per tag id
IdealScoreRows == {<<2, 1, 7>>, <<7, 1, 2>>, <<5, 0, 5>>}

\* ctx_preds.scores: (sentence_size, vocab_size) scores for each of the n
\* sentences with context
IdealCtxPredictions(sent, n) ==
    [1..n -> [1..Len(sent.tokens) -> IdealScoreRows]]

\* _pred_error with the tag_to_id of IdealNeuralContextRetriever.retrieve
ideal_pred_error(sent, scores_of_pred) ==
    LET errs == {Scale - At0(scores_of_pred[k], ideal_tag_to_id(sent.tags[k])) :
                    k \in 1..Len(sent.tags)}
    IN  CHOOSE m \in errs : \A e \in errs : e <= m

\* the pairs sorted by decreasing error
SortedByErr_decreasing(pairs) ==
    LET n == Len(pairs)
        p == CHOOSE q \in InjSeqs(1..n, n) :
                \A a \in 1..(n - 1) :
                    \/ pairs[q[a]][2] > pairs[q[a + 1]][2]
                    \/ pairs[q[a]][2] = pairs[q[a + 1]][2] /\ q[a] < q[a + 1]
    IN  [k \in 1..n |-> pairs[p[k]]]

\* sorted(context_and_err, key=lambda cd: cd[1]): by increasing error, the
\* pairs of equal error staying in the order of the list (sorted is stable)
SortedByErr(pairs) ==
    LET n == Len(pairs)
        p == CHOOSE q \in InjSeqs(1..n, n) :
                \A a \in 1..(n - 1) :
                    \/ pairs[q[a]][2] < pairs[q[a + 1]][2]
                    \/ pairs[q[a]][2] = pairs[q[a + 1]][2] /\ q[a] < q[a + 1]
    IN  [k \in 1..n |-> pairs[p[k]]]

\* zip(contexts, ctx_preds.scores) with the error of each prediction
ContextAndErr(sent, matchs, scores_of_ctx) ==
    [k \in 1..Min(Len(matchs), Len(scores_of_ctx)) |->
        <<matchs[k], ideal_pred_error(sent, scores_of_ctx[k])>>]

\* ok_contexts: the contexts of the first sents_nb pairs
OkContexts(pairs, nb) ==
    LET ok_contexts_and_err == SubSeq(SortedByErr(pairs), 1, Min(nb, Len(pairs)))
    IN  [k \in DOMAIN ok_contexts_and_err |-> ok_contexts_and_err[k][1]]

\* an ideal retriever over a preliminary retriever, and the document it is
\* called on
IdealInit ==
    /\ ideal \in [sents_nb : {IntNb(n) : n \in 0..MaxSentsNb} \cup {ListNb(<<1, 2>>)}]
    /\ ideal_choice = 0
    /\ contexts = <<>>
    /\ ctx_preds = <<>>
    /\ context_and_err = <<>>
    /\ retriever \in {r \in Retrievers :
                        /\ ~r.sents_nb.is_list
                        /\ r.name \in {"random", "left"}}
    /\ document \in NeuralDocuments(MaxIdealDocLen)
    /\ sent_idx = 0
    /\ outcome = NoCall
    /\ NeuralIdle
    /\ GenIdle
    /\ BalanceIdle
    /\ BM25Idle
    /\ ItemIdle
    /\ BookIdle
    /\ XpIdle

IdealNeuralContextRetriever_retrieve ==
    /\ outcome.status = "none"
    /\ \E nb \in SentsNbChoices(ideal.sents_nb) :
       \E sidx \in 0..(Len(document) - 1) :
       \E h \in Retrieve(retriever, sidx, document) :
          /\ ideal_choice' = nb
          /\ sent_idx' = sidx
          /\ IF h.status = "raised"
             THEN /\ outcome' = Raised
                  /\ UNCHANGED <<contexts, ctx_preds, context_and_err>>
             ELSE \E preds \in IdealCtxPredictions(At0(document, sidx), Len(h.matchs)) :
                    LET pairs == ContextAndErr(At0(document, sidx), h.matchs, preds)
                    IN  /\ contexts' = h.matchs
                        /\ ctx_preds' = preds
                        /\ context_and_err' = pairs
                        /\ outcome' = Returned(OkContexts(pairs, nb))
    /\ UNCHANGED <<ideal, retriever, document, neuralVars, genVars, balVars,
                   bm25Vars, itemVars, bookVars, xpVars>>

IdealNext == IdealNeuralContextRetriever_retrieve

SpecIdeal == IdealInit /\ [][IdealNext]_vars

\* the prediction error of the sentence with the k-th context: the maximum
\* over the tokens of 1 - the score of the gold tag
ErrOf(k) ==
    LET sent == At0(document, sent_idx)
        errs == [t \in 1..Len(sent.tags) |->
                    Scale - ctx_preds[k][t][ideal_tag_to_id(sent.tags[t]) + 1]]
    IN  CHOOSE m \in SeqToSet(errs) : \A t \in DOMAIN errs : errs[t] <= m

\* C23: IdealNeuralContextRetriever.retrieve returns min(sents_nb, pool
\* size) matches, all taken unchanged from the pool of the preliminary
\* retriever, such that no candidate left out has a strictly lower
\* prediction error than a returned one; the result is ordered by increasing
\* error, ties keeping pool order.
C23_IdealLowestError ==
    outcome.status = "returned" =>
        LET n == Len(outcome.matchs)
        IN  /\ n = Min(ideal_choice, Len(contexts))
            /\ \E p \in InjSeqs(DOMAIN contexts, n) :
                  /\ \A i \in 1..n : outcome.matchs[i] = contexts[p[i]]
                  /\ \A i \in 1..(n - 1) :
                        \/ ErrOf(p[i]) < ErrOf(p[i + 1])
                        \/ ErrOf(p[i]) = ErrOf(p[i + 1]) /\ p[i] < p[i + 1]
                  /\ \A k \in DOMAIN contexts \ SeqToSet(p) :
                        \A i \in 1..n : ErrOf(k) >= ErrOf(p[i])

\* two of three candidates are returned, the third of the pool before the
\* first, the second being left out with the same error as the first
C23_Witness ==
    /\ outcome.status = "returned"
    /\ Len(contexts) = 3
    /\ ideal_choice = 2
    /\ outcome.matchs = <<contexts[3], contexts[1]>>
    /\ ErrOf(3) < ErrOf(1)
    /\ ErrOf(1) = ErrOf(2)

----------------------------------------------------------------------------
(* DekkerDataset: loading of one book file (conivel/datas/dekker/dekker.py) *)

\* the tokens made of one and of two backquotes (the character cannot be
\* written in a string of this module)
Backquote == "<backquote>"
Backquotes == "<backquote><backquote>"

\* line.strip().split(" ") of the lines a file may hold: a token and a tag,
\* or a blank line, or a line of three fields
LineFields ==
    { <<"Ann", "B-PER">>, <<"ran", "O">>, <<".", "O">>, <<"''", "O">>,
      <<Backquotes, "O">>, <<Backquote, "O">>, <<"">>, <<"Ann", "ran", "O">> }

BookFiles == UNION {[1..n -> LineFields] : n \in 0..MaxBookLines}

\* token, tag = ... raises ValueError unless there are exactly two fields
Unpacks(fields) == Len(fields) = 2

\* fixed_token
FixedToken(token) ==
    IF token = Backquote THEN "'"
    ELSE IF token \in {Backquotes, "''"} THEN "\""
    ELSE token

SentenceEnds == {"''", ".", "?", "!"}

\* NERSentence()
EmptySentence == [tokens |-> <<>>, tags |-> <<>>]

DekkerInit ==
    /\ book_lines \in BookFiles
    /\ book_pc = "read"
    /\ line_i = 0
    /\ book_tokens = <<>>
    /\ book_tags = <<>>
    /\ book_doc = <<>>
    /\ book_sent = EmptySentence
    /\ retriever = [name |-> "random", sents_nb |-> IntNb(0)]
    /\ document = <<>>
    /\ sent_idx = 0
    /\ outcome = NoCall
    /\ NeuralIdle
    /\ GenIdle
    /\ BalanceIdle
    /\ BM25Idle
    /\ ItemIdle
    /\ IdealIdle
    /\ XpIdle

\* one iteration of the loop over the lines, the line being unpacked
DekkerDataset_read_line ==
    /\ book_pc = "read"
    /\ line_i < Len(book_lines)
    /\ Unpacks(At0(book_lines, line_i))
    /\ book_tokens' = Append(book_tokens, At0(book_lines, line_i)[1])
    /\ book_tags' = Append(book_tags, At0(book_lines, line_i)[2])
    /\ line_i' = line_i + 1
    /\ UNCHANGED <<book_lines, book_pc, book_doc, book_sent, heurVars, neuralVars,
                   genVars, balVars, bm25Vars, itemVars, idealVars, xpVars>>

\* one iteration of the loop over the lines, the unpacking raising
\* ValueError: the line is reported and skipped
DekkerDataset_skip_line ==
    /\ book_pc = "read"
    /\ line_i < Len(book_lines)
    /\ ~Unpacks(At0(book_lines, line_i))
    /\ line_i' = line_i + 1
    /\ UNCHANGED <<book_lines, book_pc, book_tokens, book_tags, book_doc, book_sent,
                   heurVars, neuralVars, genVars, balVars, bm25Vars, itemVars,
                   idealVars, xpVars>>

\* the file is read: doc = [], sent = NERSentence()
DekkerDataset_start_parse ==
    /\ book_pc = "read"
    /\ line_i = Len(book_lines)
    /\ book_pc' = "parse"
    /\ line_i' = 0
    /\ book_doc' = <<>>
    /\ book_sent' = EmptySentence
    /\ UNCHANGED <<book_lines, book_tokens, book_tags, heurVars, neuralVars,
                   genVars, balVars, bm25Vars, itemVars, idealVars, xpVars>>

\* one iteration of the loop over the tokens
DekkerDataset_parse_token ==
    /\ book_pc = "parse"
    /\ line_i < Len(book_tokens)
    /\ LET token == At0(book_tokens, line_i)
           tag == At0(book_tags, line_i)
           next_token == IF line_i < Len(book_tokens) - 1
                         THEN Some(At0(book_tokens, line_i + 1)) ELSE None
           sent == [tokens |-> Append(book_sent.tokens, FixedToken(token)),
                    tags |-> Append(book_sent.tags, tag)]
       IN  IF next_token = Some("''")
           THEN /\ book_sent' = sent
                /\ book_doc' = book_doc
           ELSE IF token \in SentenceEnds
           THEN /\ book_doc' = Append(book_doc, sent)
                /\ book_sent' = EmptySentence
           ELSE /\ book_sent' = sent
                /\ book_doc' = book_doc
    /\ line_i' = line_i + 1
    /\ UNCHANGED <<book_lines, book_pc, book_tokens, book_tags, heurVars,
                   neuralVars, genVars, balVars, bm25Vars, itemVars, idealVars, xpVars>>

\* documents.append(doc)
DekkerDataset_append_document ==
    /\ book_pc = "parse"
    /\ line_i = Len(book_tokens)
    /\ book_pc' = "done"
    /\ UNCHANGED <<book_lines, line_i, book_tokens, book_tags, book_doc, book_sent,
                   heurVars, neuralVars, genVars, balVars, bm25Vars, itemVars,
                   idealVars, xpVars>>

DekkerNext ==
    \/ DekkerDataset_read_line
    \/ DekkerDataset_skip_line
    \/ DekkerDataset_start_parse
    \/ DekkerDataset_parse_token
    \/ DekkerDataset_append_document

SpecDekker == DekkerInit /\ [][DekkerNext]_vars

\* the well-formed lines of the file, in file order
WellFormedLines == SelectSeq(book_lines, LAMBDA fields : Len(fields) = 2)

\* the tokens, or the tags, of the sentences of a document, concatenated
RECURSIVE Concatenated(_, _)
Concatenated(doc_sents, field) ==
    IF doc_sents = <<>> THEN <<>>
    ELSE (IF field = "tokens" THEN Head(doc_sents).tokens ELSE Head(doc_sents).tags)
             \o Concatenated(Tail(doc_sents), field)

\* C25: loading of one book file: malformed lines are skipped and parsing
\* continues, and the sentences of the resulting document, concatenated in
\* order, contain every token of every well-formed line exactly once and in
\* file order (after quote normalisation), each with its tag, so that no
\* token is lost, including the tokens after the last sentence terminator;
\* every sentence has as many tags as tokens.
C25_NoTokenLost ==
    book_pc = "done" =>
        /\ Concatenated(book_doc, "tokens") =
               [k \in DOMAIN WellFormedLines |-> FixedToken(WellFormedLines[k][1])]
        /\ Concatenated(book_doc, "tags") =
               [k \in DOMAIN WellFormedLines |-> WellFormedLines[k][2]]
        /\ \A s \in DOMAIN book_doc :
               Len(book_doc[s].tokens) = Len(book_doc[s].tags)

\* the tokens the document lacks are those of the sentence left unfinished
\* at the end of the file
C25_OnlyTheLastSentenceLost ==
    book_pc = "done" =>
        /\ Concatenated(book_doc, "tokens") \o book_sent.tokens =
               [k \in DOMAIN WellFormedLines |-> FixedToken(WellFormedLines[k][1])]
        /\ Concatenated(book_doc, "tags") \o book_sent.tags =
               [k \in DOMAIN WellFormedLines |-> WellFormedLines[k][2]]
        /\ \A s \in DOMAIN book_doc :
               Len(book_doc[s].tokens) = Len(book_doc[s].tags)

----------------------------------------------------------------------------
(* The experiment (xp_neural_context_retriever.py) and the lookup of the    *)
(* retrieval heuristic by name                                              *)

\* context_retriever_name_to_class, a class being given by its name
context_retriever_name_to_class ==
    [name \in {"neural", "neighbors", "left", "right", "bm25", "samenoun", "random"} |->
        CASE name = "neural" -> "NeuralContextRetriever"
          [] name = "neighbors" -> "NeighborsContextRetriever"
          [] name = "left" -> "LeftContextRetriever"
          [] name = "right" -> "RightContextRetriever"
          [] name = "bm25" -> "BM25ContextRetriever"
          [] name = "samenoun" -> "SameNounRetriever"
          [] name = "random" -> "RandomContextRetriever"]

\* the names the assertion at the entry of main accepts
AcceptedHeuristics == {"random", "bm25", "sameword"}

\* the names the experiment may be configured with
HeuristicConfigs == AcceptedHeuristics \cup {"samenoun", "left", "neural", "tfidf"}

\* context_retriever_name_to_class[name]: the class, or KeyError
Lookup(name) ==
    IF name \in DOMAIN context_retriever_name_to_class
    THEN [status |-> "found", class |-> context_retriever_name_to_class[name]]
    ELSE [status |-> "raised", class |-> ""]

XpInit ==
    /\ xp \in {c \in [retrieval_heuristic : HeuristicConfigs,
                       runs_nb : 1..MaxRuns,
                       k : 1..MaxFolds,
                       folds_list : {None} \cup {Some(s) : s \in SUBSET (0..(MaxFolds - 1))}] :
                 c.folds_list # None => c.folds_list[1] \subseteq 0..(c.k - 1)}
    /\ xp_pc = "start"
    /\ run_i = 0
    /\ fold_i = 0
    /\ xp_error = ""
    /\ ctx_selector_class = ""
    /\ retriever = [name |-> "random", sents_nb |-> IntNb(0)]
    /\ document = <<>>
    /\ sent_idx = 0
    /\ outcome = NoCall
    /\ NeuralIdle
    /\ GenIdle
    /\ BalanceIdle
    /\ BM25Idle
    /\ ItemIdle
    /\ IdealIdle
    /\ BookIdle

\* the position after the fold fold_i of the run run_i
AfterFold ==
    IF fold_i + 1 < xp.k
    THEN [pc |-> "fold", run_i |-> run_i, fold_i |-> fold_i + 1]
    ELSE IF run_i + 1 < xp.runs_nb
    THEN [pc |-> "fold", run_i |-> run_i + 1, fold_i |-> 0]
    ELSE [pc |-> "done", run_i |-> run_i, fold_i |-> fold_i]

\* assert retrieval_heuristic in ["random", "bm25", "sameword"]
main_assert ==
    /\ xp_pc = "start"
    /\ IF xp.retrieval_heuristic \in AcceptedHeuristics
       THEN /\ xp_pc' = "fold"
            /\ xp_error' = xp_error
       ELSE /\ xp_pc' = "raised"
            /\ xp_error' = "AssertionError"
    /\ UNCHANGED <<xp, run_i, fold_i, ctx_selector_class, heurVars, neuralVars,
                   genVars, balVars, bm25Vars, itemVars, idealVars, bookVars>>

\* a fold that is not in folds_list: continue
main_skip_fold ==
    /\ xp_pc = "fold"
    /\ xp.folds_list # None
    /\ fold_i \notin xp.folds_list[1]
    /\ xp_pc' = AfterFold.pc
    /\ run_i' = AfterFold.run_i
    /\ fold_i' = AfterFold.fold_i
    /\ UNCHANGED <<xp, xp_error, ctx_selector_class, heurVars, neuralVars,
                   genVars, balVars, bm25Vars, itemVars, idealVars, bookVars>>

\* the lookup of a step of main, which then goes to the position next
LookupStep(next) ==
    LET l == Lookup(xp.retrieval_heuristic)
    IN  IF l.status = "found"
        THEN /\ ctx_selector_class' = l.class
             /\ xp_pc' = next.pc
             /\ run_i' = next.run_i
             /\ fold_i' = next.fold_i
             /\ xp_error' = xp_error
        ELSE /\ xp_pc' = "raised"
             /\ xp_error' = "KeyError"
             /\ UNCHANGED <<ctx_selector_class, run_i, fold_i>>

\* generate_context_dataset on the generation set: the heuristic is looked
\* up and instantiated
main_generate_context_dataset ==
    /\ xp_pc = "fold"
    /\ xp.folds_list # None => fold_i \in xp.folds_list[1]
    /\ LookupStep([pc |-> "generated", run_i |-> run_i, fold_i |-> fold_i])
    /\ UNCHANGED <<xp, heurVars, neuralVars, genVars, balVars, bm25Vars, itemVars,
                   idealVars, bookVars>>

\* NeuralContextRetriever(...): the heuristic is looked up and instantiated
main_NeuralContextRetriever ==
    /\ xp_pc = "generated"
    /\ LookupStep([pc |-> "retriever", run_i |-> run_i, fold_i |-> fold_i])
    /\ UNCHANGED <<xp, heurVars, neuralVars, genVars, balVars, bm25Vars, itemVars,
                   idealVars, bookVars>>

\* generate_context_dataset on the test set, and the end of the fold
main_generate_test_dataset ==
    /\ xp_pc = "retriever"
    /\ LookupStep(AfterFold)
    /\ UNCHANGED <<xp, heurVars, neuralVars, genVars, balVars, bm25Vars, itemVars,
                   idealVars, bookVars>>

XpNext ==
    \/ main_assert
    \/ main_skip_fold
    \/ main_generate_context_dataset
    \/ main_NeuralContextRetriever
    \/ main_generate_test_dataset

SpecXp == XpInit /\ [][XpNext]_vars

\* C26: every retrieval_heuristic name that the entry assertion of the
\* experiment accepts is a key of context_retriever_name_to_class, so that
\* generate_context_dataset and NeuralContextRetriever instantiate the
\* heuristic without a lookup error.
C26_AcceptedNamesAreKeys ==
    /\ xp_pc # "start" /\ xp_error # "AssertionError" =>
           xp.retrieval_heuristic \in DOMAIN context_retriever_name_to_class
    /\ xp_error # "KeyError"

\* an experiment whose heuristic is a key of the dictionary ends without an
\* error
C26_KeysDoNotRaise ==
    xp.retrieval_heuristic \in DOMAIN context_retriever_name_to_class =>
        xp_error # "KeyError"

====
